---- MODULE Spec2Model ----
(***************************************************************************)
(* ImplantHub API (implant-hub-fixed/backend/app): the relational store,   *)
(* the seven mutating HTTP handlers with their audit side effect, the      *)
(* read-only listings the contracts mention, and the start-up init_db      *)
(* retry loop.                                                             *)
(*                                                                         *)
(* A handler is a sequence of atomic steps, one per database statement or  *)
(* commit: between two steps of one request, steps of another worker's     *)
(* request may run.  The store is what has been committed.  Wall-clock     *)
(* time is a logical clock that every datetime.utcnow() call advances.     *)
(***************************************************************************)
EXTENDS Integers, Sequences, FiniteSets, TLC

VARIABLES
    users, templates, phases, activities, requirements, decisions,
    activity_requirements, activity_decisions,
    projects, checklist_items, project_members, audit_logs,
    clock,      \* the next value datetime.utcnow() returns
    pc,         \* per worker: the position of the request it is handling
    req,        \* per worker: the request (kind, X-User-Id header, actor, payload)
    loc,        \* per worker: the handler's local variables
    resp,       \* per worker: the response of its last finished request
    crashes,    \* storage failures / process crashes so far
    submitted,  \* per template id: the phases payload createTemplate was given
    dbpc, retries, attempt, last_err, raised, create_all_calls, sleeps

store == <<users, templates, phases, activities, requirements, decisions,
           activity_requirements, activity_decisions,
           projects, checklist_items, project_members>>
apivars == <<store, audit_logs, clock, pc, req, loc, resp, crashes, submitted>>
dbvars == <<dbpc, retries, attempt, last_err, raised, create_all_calls, sleeps>>
vars == <<apivars, dbvars>>

-----------------------------------------------------------------------------
(* Bounds of the model. *)

\* requests that get past validation in one behaviour of the one-worker service
SeqBudget == 4
\* requests that two workers handle concurrently, on top of the seeded store
ConcBudget == 2
\* requests handled on top of the seeded store when storage may fail
LiveBudget == 2
SeededBudget == 2
HeaderBudget == 2
\* storage failures / crashes in one behaviour
MaxCrashes == 1
\* rows the model lets the templates and projects tables grow to
MaxTemplates == 1
MaxProjects == 1
\* rows the model lets the requirements and the decisions tables grow to
MaxLinks == 1
\* the largest `retries` init_db is called with
MaxRetries == 5

Workers == {1, 2}
Emails == {"ana@x.io", "bob@x.io"}
Roles == {"member", "lead"}
PhaseNames == <<"Setup", "Build">>
ActivityNames == <<"install", "configure">>
\* createTemplate payloads, as the number of activities of each phase
TemplateShapes == {<<>>, <<0>>, <<1>>, <<0, 2>>, <<2, 1>>}

-----------------------------------------------------------------------------
(* Optional values: None, or a one-element tuple. *)

None == <<>>
Some(v) == <<v>>

\* The X-User-Id header of a request: absent, or its text as characters.
Anonymous == {None}
Actors == {None, Some(<<"1">>)}
Headers == {None, Some(<<"1">>), Some(<<"4", "2">>), Some(<<"a", "b", "c">>),
            Some(<<"1", "x">>)}

DigitValue(c) ==
    CASE c = "0" -> 0 [] c = "1" -> 1 [] c = "2" -> 2 [] c = "3" -> 3
      [] c = "4" -> 4 [] c = "5" -> 5 [] c = "6" -> 6 [] c = "7" -> 7
      [] c = "8" -> 8 [] c = "9" -> 9

IsIntegerText(text) ==
    /\ text # <<>>
    /\ \A i \in DOMAIN text :
          text[i] \in {"0", "1", "2", "3", "4", "5", "6", "7", "8", "9"}

RECURSIVE int(_)
int(text) ==
    IF Len(text) = 1 THEN DigitValue(text[1])
    ELSE 10 * int(SubSeq(text, 1, Len(text) - 1)) + DigitValue(text[Len(text)])

\* security.py: x_user_id: Optional[int] = Header(default=None, alias="X-User-Id").
\* The declaration is validated before get_actor_user_id is called: a header
\* that is present must parse as an int.
Validates(header) == header = None \/ IsIntegerText(header[1])
\* the value the parameter x_user_id is bound to
HeaderParam(header) == IF header = None THEN None ELSE Some(int(header[1]))
ValidHeaders(headers) == {h \in headers : Validates(h)}

\* security.py: def get_actor_user_id(x_user_id): return x_user_id
get_actor_user_id(x_user_id) == x_user_id

Range(s) == {s[i] : i \in DOMAIN s}

RECURSIVE SumSeq(_)
SumSeq(s) == IF s = <<>> THEN 0 ELSE Head(s) + SumSeq(Tail(s))

\* datetime -> ISO-8601 string, as fastapi's jsonable_encoder renders it
isoformat(t) == ToString(t)

\* jsonable_encoder on a model dump: the datetime fields become strings
jsonable_encoder(v, dtfields) ==
    [f \in DOMAIN v |-> IF f \in dtfields THEN isoformat(v[f]) ELSE v[f]]

-----------------------------------------------------------------------------
(* Rows (models.py).  A table is the sequence of its rows in insertion     *)
(* order; an auto-increment id is the row's position.                      *)

User(id, name, email, created_at) ==
    [id |-> id, name |-> name, email |-> email, created_at |-> created_at]

Template(id, name, description) ==
    [id |-> id, name |-> name, description |-> description]

Phase(id, template_id, name, order) ==
    [id |-> id, template_id |-> template_id, name |-> name, order |-> order]

Activity(id, phase_id, name) ==
    [id |-> id, phase_id |-> phase_id, name |-> name,
     description |-> "", definition_of_done |-> ""]

Requirement(id, title) == [id |-> id, title |-> title, description |-> ""]

Decision(id, title, created_at) ==
    [id |-> id, title |-> title, description |-> "", rationale |-> "",
     created_at |-> created_at]

Project(id, template_id, client_name, now, actor) ==
    [id |-> id, template_id |-> template_id, client_name |-> client_name,
     status |-> "active", created_at |-> now, updated_at |-> now,
     created_by_user_id |-> actor, updated_by_user_id |-> actor]

ChecklistItem(id, project_id, activity_id, title, now, actor) ==
    [id |-> id, project_id |-> project_id, activity_id |-> activity_id,
     title |-> title, status |-> "todo", assignee |-> "", notes |-> "",
     updated_at |-> now, updated_by_user_id |-> actor]

ProjectMember(project_id, user_id, role, joined_at) ==
    [project_id |-> project_id, user_id |-> user_id, role |-> role,
     joined_at |-> joined_at]

AuditLog(id, project_id, actor, action, entity_type, entity_id, before, after, now) ==
    [id |-> id, project_id |-> project_id, actor_user_id |-> actor,
     action |-> action, entity_type |-> entity_type, entity_id |-> entity_id,
     before |-> before, after |-> after, created_at |-> now]

\* session.get(Model, id): the row, or None
Get(table, id) == IF id \in DOMAIN table THEN Some(table[id]) ELSE None

-----------------------------------------------------------------------------
(* Requests and responses. *)

NoRequest == [kind |-> "none"]
NoLocals == [none |-> TRUE]
NoResponse == [status |-> 0, body |-> [none |-> TRUE]]

Running(r) == pc[r] \notin {"idle", "done"}
InFlight == Cardinality({r \in Workers : Running(r)})

\* A worker is free to take a request once start-up has created the tables.
CanAccept(r) == dbpc = "returned" /\ ~Running(r)

\* The model follows a request past its validation while the budget lasts.
HasBudget(budget) == Len(audit_logs) + crashes + InFlight < budget

\* The handler is entered and has passed its first statement.
Begin(r, kind, x_user_id, payload, next, locals) ==
    /\ req' = [req EXCEPT ![r] =
                 [kind |-> kind, x_user_id |-> x_user_id,
                  actor |-> get_actor_user_id(HeaderParam(x_user_id)),
                  p |-> payload]]
    /\ pc' = [pc EXCEPT ![r] = next]
    /\ loc' = [loc EXCEPT ![r] = locals]
    /\ resp' = [resp EXCEPT ![r] = NoResponse]
    /\ UNCHANGED <<crashes, dbvars>>

\* raise HTTPException(status_code, detail) out of the handler's first reads:
\* nothing was written
Refuse(r, kind, x_user_id, payload, status, detail) ==
    /\ req' = [req EXCEPT ![r] =
                 [kind |-> kind, x_user_id |-> x_user_id,
                  actor |-> get_actor_user_id(HeaderParam(x_user_id)),
                  p |-> payload]]
    /\ pc' = [pc EXCEPT ![r] = "done"]
    /\ loc' = [loc EXCEPT ![r] = NoLocals]
    /\ resp' = [resp EXCEPT ![r] = [status |-> status, body |-> [detail |-> detail]]]
    /\ UNCHANGED <<store, audit_logs, clock, crashes, submitted, dbvars>>

Goto(r, next, locals) ==
    /\ pc' = [pc EXCEPT ![r] = next]
    /\ loc' = [loc EXCEPT ![r] = locals]
    /\ UNCHANGED <<req, resp, crashes, dbvars>>

Respond(r, status, body) ==
    /\ pc' = [pc EXCEPT ![r] = "done"]
    /\ loc' = [loc EXCEPT ![r] = NoLocals]
    /\ resp' = [resp EXCEPT ![r] = [status |-> status, body |-> body]]
    /\ UNCHANGED <<req, crashes, dbvars>>

-----------------------------------------------------------------------------
(* audit.py *)

\* audit() without its session.commit(): the row is never stored
auditWithoutCommit(project_id, actor, action, entity_type, entity_id, before, after) ==
    /\ audit_logs' = audit_logs
    /\ clock' = clock

\* audit() as an upsert: the latest row is overwritten
auditOverwritesLast(project_id, actor, action, entity_type, entity_id, before, after) ==
    /\ audit_logs' =
          IF audit_logs = <<>>
          THEN <<AuditLog(1, project_id, actor, action, entity_type, entity_id,
                          before, after, clock)>>
          ELSE [audit_logs EXCEPT ![Len(audit_logs)] =
                   AuditLog(Len(audit_logs), project_id, actor, action, entity_type,
                            entity_id, before, after, clock)]
    /\ clock' = clock + 1

\* audit(): one AuditLog row, committed at once
audit(project_id, actor, action, entity_type, entity_id, before, after) ==
    /\ audit_logs' = Append(audit_logs,
          AuditLog(Len(audit_logs) + 1, project_id, actor, action, entity_type,
                   entity_id, before, after, clock))
    /\ clock' = clock + 1

-----------------------------------------------------------------------------
(* routers/users.py *)

\* The existence check on the wrong column.
UserByName(email) == {u \in Range(users) : u.name = email}

\* select(User).where(User.email == payload.email).first()
UserByEmail(email) == {u \in Range(users) : u.email = email}

\* POST /users, up to the existence check
CreateUser(r, lim) ==
    /\ CanAccept(r)
    /\ \E x_user_id \in ValidHeaders(lim.headers), email \in lim.emails :
          LET payload == [name |-> "Ana", email |-> email]
          IN IF UserByEmail(email) # {}
             THEN Refuse(r, "createUser", x_user_id, payload, 409,
                         "Ja existe usuario com este email.")
             ELSE /\ HasBudget(lim.budget)
                  /\ Begin(r, "createUser", x_user_id, payload, "cu_commit", NoLocals)
                  /\ UNCHANGED <<store, audit_logs, clock, submitted>>

\* session.add(user); session.commit(); session.refresh(user)
CreateUserCommit(r) ==
    /\ pc[r] = "cu_commit"
    /\ LET user == User(Len(users) + 1, req[r].p.name, req[r].p.email, clock)
       IN /\ users' = Append(users, user)
          /\ clock' = clock + 1
          /\ Goto(r, "cu_audit", [user |-> user])
    /\ UNCHANGED <<templates, phases, activities, requirements, decisions,
                   activity_requirements, activity_decisions, projects,
                   checklist_items, project_members, audit_logs, submitted>>

CreateUserAudit(r) ==
    /\ pc[r] = "cu_audit"
    /\ audit(None, req[r].actor, "user.create", "User", Some(loc[r].user.id),
             None, Some(jsonable_encoder(loc[r].user, {"created_at"})))
    /\ Respond(r, 200, loc[r].user)
    /\ UNCHANGED <<store, submitted>>

\* GET /users: order_by(User.created_at.desc())
RECURSIVE OrderByDesc(_, _)
OrderByDesc(rows, key) ==
    IF rows = {} THEN <<>>
    ELSE LET top == CHOOSE x \in rows : \A y \in rows : x[key] >= y[key]
         IN <<top>> \o OrderByDesc(rows \ {top}, key)

list_users == OrderByDesc(Range(users), "created_at")

-----------------------------------------------------------------------------
(* routers/templates.py *)

\* TemplateIn.phases: each phase has a name, an order and its activities
PhaseIn(i, count) ==
    [name |-> PhaseNames[i], order |-> i,
     activities |-> [j \in 1..count |-> [name |-> ActivityNames[j]]]]

TemplatePayloads(shapes) ==
    {[i \in 1..Len(counts) |-> PhaseIn(i, counts[i])] : counts \in shapes}

\* POST /templates, up to the template's own commit:
\* template = Template(...); session.add; commit; refresh
CreateTemplate(r, lim) ==
    /\ CanAccept(r)
    /\ HasBudget(lim.budget)
    /\ Len(templates) < lim.templates
    /\ \E x_user_id \in ValidHeaders(lim.headers), ps \in TemplatePayloads(lim.shapes) :
          LET template == Template(Len(templates) + 1, "ERP rollout", "")
          IN /\ templates' = Append(templates, template)
             /\ submitted' = Append(submitted, ps)
             /\ Begin(r, "createTemplate", x_user_id,
                      [name |-> "ERP rollout", description |-> "", phases |-> ps],
                      IF ps = <<>> THEN "ct_audit" ELSE "ct_phase",
                      [template |-> template, i |-> 1])
    /\ UNCHANGED <<users, phases, activities, requirements, decisions,
                   activity_requirements, activity_decisions, projects,
                   checklist_items, project_members, audit_logs, clock>>

\* for ph in payload.phases: phase = Phase(...); session.add; commit; refresh
CreateTemplatePhase(r) ==
    /\ pc[r] = "ct_phase"
    /\ LET ph == req[r].p.phases[loc[r].i]
           phase == Phase(Len(phases) + 1, loc[r].template.id, ph.name, ph.order)
       IN /\ phases' = Append(phases, phase)
          /\ Goto(r, "ct_activities", loc[r] @@ [phase |-> phase])
    /\ UNCHANGED <<users, templates, activities, requirements, decisions,
                   activity_requirements, activity_decisions, projects,
                   checklist_items, project_members, audit_logs, clock, submitted>>

\* for ac in ph.activities: session.add(Activity(...)); then one session.commit()
CreateTemplateActivities(r) ==
    /\ pc[r] = "ct_activities"
    /\ LET acs == req[r].p.phases[loc[r].i].activities
           rows == [j \in 1..Len(acs) |->
                       Activity(Len(activities) + j, loc[r].phase.id, acs[j].name)]
           last == loc[r].i = Len(req[r].p.phases)
       IN /\ activities' = activities \o rows
          /\ Goto(r, IF last THEN "ct_audit" ELSE "ct_phase",
                  [template |-> loc[r].template, i |-> loc[r].i + 1])
    /\ UNCHANGED <<users, templates, phases, requirements, decisions,
                   activity_requirements, activity_decisions, projects,
                   checklist_items, project_members, audit_logs, clock, submitted>>

CreateTemplateAudit(r) ==
    /\ pc[r] = "ct_audit"
    /\ audit(None, req[r].actor, "template.create", "Template",
             Some(loc[r].template.id), None,
             Some([template |-> loc[r].template,
                   phases_count |-> Len(req[r].p.phases)]))
    /\ Respond(r, 200, loc[r].template)
    /\ UNCHANGED <<store, submitted>>

\* POST /templates/link-requirement, up to
\* activity = session.get(Activity, payload.activity_id)
LinkRequirement(r, lim) ==
    /\ CanAccept(r)
    /\ Len(requirements) < lim.links
    /\ \E x_user_id \in ValidHeaders(lim.headers), activity_id \in 1..(Len(activities) + 1) :
          LET payload == [activity_id |-> activity_id, requirement_title |-> "SSO"]
              activity == Get(activities, activity_id)
          IN IF activity = None
             THEN Refuse(r, "linkRequirement", x_user_id, payload, 404,
                         "Atividade nao encontrada.")
             ELSE /\ HasBudget(lim.budget)
                  /\ Begin(r, "linkRequirement", x_user_id, payload, "lr_requirement",
                           [activity |-> activity[1]])
                  /\ UNCHANGED <<store, audit_logs, clock, submitted>>

\* req = Requirement(...); session.add; commit; refresh
LinkRequirementCommit(r) ==
    /\ pc[r] = "lr_requirement"
    /\ LET requirement == Requirement(Len(requirements) + 1, req[r].p.requirement_title)
       IN /\ requirements' = Append(requirements, requirement)
          /\ Goto(r, "lr_link", loc[r] @@ [req |-> requirement])
    /\ UNCHANGED <<users, templates, phases, activities, decisions,
                   activity_requirements, activity_decisions, projects,
                   checklist_items, project_members, audit_logs, clock, submitted>>

\* link = ActivityRequirementLink(...); session.add; commit
LinkRequirementLink(r) ==
    /\ pc[r] = "lr_link"
    /\ activity_requirements' = activity_requirements \cup
          {[activity_id |-> loc[r].activity.id, requirement_id |-> loc[r].req.id]}
    /\ Goto(r, "lr_audit", loc[r])
    /\ UNCHANGED <<users, templates, phases, activities, requirements, decisions,
                   activity_decisions, projects, checklist_items, project_members,
                   audit_logs, clock, submitted>>

LinkRequirementAudit(r) ==
    /\ pc[r] = "lr_audit"
    /\ audit(None, req[r].actor, "template.requirement.link",
             "ActivityRequirementLink", None, None,
             Some([activity_id |-> loc[r].activity.id,
                   requirement_id |-> loc[r].req.id]))
    /\ Respond(r, 200, [ok |-> TRUE, requirement_id |-> loc[r].req.id])
    /\ UNCHANGED <<store, submitted>>

\* POST /templates/link-decision, up to
\* activity = session.get(Activity, payload.activity_id)
LinkDecision(r, lim) ==
    /\ CanAccept(r)
    /\ Len(decisions) < lim.links
    /\ \E x_user_id \in ValidHeaders(lim.headers), activity_id \in 1..(Len(activities) + 1) :
          LET payload == [activity_id |-> activity_id, decision_title |-> "Use SAML"]
              activity == Get(activities, activity_id)
          IN IF activity = None
             THEN Refuse(r, "linkDecision", x_user_id, payload, 404,
                         "Atividade nao encontrada.")
             ELSE /\ HasBudget(lim.budget)
                  /\ Begin(r, "linkDecision", x_user_id, payload, "ld_decision",
                           [activity |-> activity[1]])
                  /\ UNCHANGED <<store, audit_logs, clock, submitted>>

\* d = Decision(...): created_at defaults to utcnow(); session.add; commit; refresh
LinkDecisionCommit(r) ==
    /\ pc[r] = "ld_decision"
    /\ LET d == Decision(Len(decisions) + 1, req[r].p.decision_title, clock)
       IN /\ decisions' = Append(decisions, d)
          /\ clock' = clock + 1
          /\ Goto(r, "ld_link", loc[r] @@ [d |-> d])
    /\ UNCHANGED <<users, templates, phases, activities, requirements,
                   activity_requirements, activity_decisions, projects,
                   checklist_items, project_members, audit_logs, submitted>>

LinkDecisionLink(r) ==
    /\ pc[r] = "ld_link"
    /\ activity_decisions' = activity_decisions \cup
          {[activity_id |-> loc[r].activity.id, decision_id |-> loc[r].d.id]}
    /\ Goto(r, "ld_audit", loc[r])
    /\ UNCHANGED <<users, templates, phases, activities, requirements, decisions,
                   activity_requirements, projects, checklist_items, project_members,
                   audit_logs, clock, submitted>>

LinkDecisionAudit(r) ==
    /\ pc[r] = "ld_audit"
    /\ audit(None, req[r].actor, "template.decision.link",
             "ActivityDecisionLink", None, None,
             Some([activity_id |-> loc[r].activity.id,
                   decision_id |-> loc[r].d.id]))
    /\ Respond(r, 200, [ok |-> TRUE, decision_id |-> loc[r].d.id])
    /\ UNCHANGED <<store, submitted>>

-----------------------------------------------------------------------------
(* routers/projects.py *)

\* POST /projects, up to template = session.get(Template, payload.template_id)
CreateProject(r, lim) ==
    /\ CanAccept(r)
    /\ Len(projects) < lim.projects
    /\ \E x_user_id \in ValidHeaders(lim.headers), template_id \in 1..(Len(templates) + 1) :
          LET payload == [template_id |-> template_id, client_name |-> "Acme"]
          IN IF Get(templates, template_id) = None
             THEN Refuse(r, "createProject", x_user_id, payload, 404,
                         "Template nao encontrado.")
             ELSE /\ HasBudget(lim.budget)
                  /\ Begin(r, "createProject", x_user_id, payload, "cp_project", NoLocals)
                  /\ UNCHANGED <<store, audit_logs, clock, submitted>>

\* now = utcnow(); project = Project(...); session.add; commit; refresh
CreateProjectCommit(r) ==
    /\ pc[r] = "cp_project"
    /\ LET project == Project(Len(projects) + 1, req[r].p.template_id,
                              req[r].p.client_name, clock, req[r].actor)
       IN /\ projects' = Append(projects, project)
          /\ clock' = clock + 1
          /\ Goto(r, "cp_phases", [project |-> project, now |-> clock])
    /\ UNCHANGED <<users, templates, phases, activities, requirements, decisions,
                   activity_requirements, activity_decisions, checklist_items,
                   project_members, audit_logs, submitted>>

\* phases = select(Phase).where(Phase.template_id == payload.template_id)
\* phase_ids = [p.id for p in phases]; no activities query when it is empty
CreateProjectPhases(r) ==
    /\ pc[r] = "cp_phases"
    /\ LET phase_ids == {p.id : p \in {q \in Range(phases) :
                                         q.template_id = req[r].p.template_id}}
       IN IF phase_ids = {}
          THEN Goto(r, "cp_items", loc[r] @@ [activities |-> <<>>])
          ELSE Goto(r, "cp_activities", loc[r] @@ [phase_ids |-> phase_ids])
    /\ UNCHANGED <<store, audit_logs, clock, submitted>>

\* A query that reads the activities of one phase only.
SelectActivitiesOfOnePhase(phase_ids) ==
    SelectSeq(activities,
              LAMBDA a : a.phase_id = CHOOSE p \in phase_ids :
                                         \A q \in phase_ids : p <= q)

\* select(Activity).where(Activity.phase_id.in_(phase_ids))
SelectActivities(phase_ids) ==
    SelectSeq(activities, LAMBDA a : a.phase_id \in phase_ids)

\* activities = session.exec(select(Activity)...).all()
CreateProjectActivities(r) ==
    /\ pc[r] = "cp_activities"
    /\ Goto(r, "cp_items",
            [project |-> loc[r].project, now |-> loc[r].now,
             activities |-> SelectActivities(loc[r].phase_ids)])
    /\ UNCHANGED <<store, audit_logs, clock, submitted>>

\* for a in activities: session.add(ChecklistItem(...)); then one session.commit()
CreateProjectItems(r) ==
    /\ pc[r] = "cp_items"
    /\ LET acts == loc[r].activities
           rows == [j \in 1..Len(acts) |->
                       ChecklistItem(Len(checklist_items) + j, loc[r].project.id,
                                     Some(acts[j].id), acts[j].name,
                                     loc[r].now, req[r].actor)]
       IN checklist_items' = checklist_items \o rows
    /\ Goto(r, "cp_audit", loc[r])
    /\ UNCHANGED <<users, templates, phases, activities, requirements, decisions,
                   activity_requirements, activity_decisions, projects,
                   project_members, audit_logs, clock, submitted>>

\* audit(...): the commit expired `project`, project.id reloads it from the store
CreateProjectAudit(r) ==
    /\ pc[r] = "cp_audit"
    /\ LET project == projects[loc[r].project.id]
           n == Len(loc[r].activities)
       IN /\ audit(Some(project.id), req[r].actor, "project.create", "Project",
                   Some(project.id), None,
                   Some([project |-> jsonable_encoder(project, {"created_at", "updated_at"}),
                         checklist_items |-> n]))
          /\ Respond(r, 200, [project_id |-> project.id, checklist_items |-> n])
    /\ UNCHANGED <<store, submitted>>

\* GET /projects/{project_id}/checklist
get_checklist(project_id) ==
    IF Get(projects, project_id) = None THEN None
    ELSE Some([project |-> projects[project_id],
               items |-> SelectSeq(checklist_items,
                                   LAMBDA it : it.project_id = project_id)])

\* ChecklistUpdateIn: every field is optional
ChecklistUpdateIn(status, assignee, notes) ==
    [status |-> status, assignee |-> assignee, notes |-> notes]

UpdatePayloads ==
    { ChecklistUpdateIn(None, None, None),
      ChecklistUpdateIn(Some("doing"), None, None),
      ChecklistUpdateIn(None, None, Some("")),
      ChecklistUpdateIn(None, None, Some("call back")),
      ChecklistUpdateIn(None, Some("ana"), Some("call back")),
      ChecklistUpdateIn(Some(""), Some(""), None),
      ChecklistUpdateIn(Some("done"), Some("ana"), Some("")) }

\* PATCH /projects/{project_id}/checklist/{item_id}, up to
\* item = session.get(ChecklistItem, item_id); before = item.model_dump()
UpdateChecklistItem(r, lim) ==
    /\ CanAccept(r)
    /\ \E x_user_id \in ValidHeaders(lim.headers), project_id \in 1..(Len(projects) + 1),
          item_id \in 1..(Len(checklist_items) + 1) :
          LET item == Get(checklist_items, item_id)
              found == item # None /\ item[1].project_id = project_id
          IN \E payload \in IF found THEN lim.updates
                            ELSE {ChecklistUpdateIn(Some("doing"), None, None)} :
               LET p == [project_id |-> project_id, item_id |-> item_id,
                         payload |-> payload]
               IN IF ~found
                  THEN Refuse(r, "updateChecklistItem", x_user_id, p, 404,
                              "Item nao encontrado.")
                  ELSE /\ HasBudget(lim.budget)
                       /\ Begin(r, "updateChecklistItem", x_user_id, p, "uc_item",
                                [item |-> item[1], before |-> item[1]])
                       /\ UNCHANGED <<store, audit_logs, clock, submitted>>

\* `if payload.<field>:` in place of `is not None`: an empty string is skipped
ApplyFieldIfTruthy(old, sent) == IF sent # None /\ sent[1] # "" THEN sent[1] ELSE old

\* if payload.<field> is not None: item.<field> = payload.<field>
ApplyField(old, sent) == IF sent # None THEN sent[1] ELSE old

\* The UPDATE a commit emits sets the columns whose value differs from the
\* one the session loaded; the other columns keep what the store holds.
Flush(stored, loaded, new) ==
    [f \in DOMAIN stored |-> IF new[f] # loaded[f] THEN new[f] ELSE stored[f]]

\* the three assignments, the stamps, session.add; commit; refresh
UpdateChecklistCommit(r) ==
    /\ pc[r] = "uc_item"
    /\ LET payload == req[r].p.payload
           old == loc[r].item
           new == [old EXCEPT !.status = ApplyField(@, payload.status),
                              !.assignee = ApplyField(@, payload.assignee),
                              !.notes = ApplyField(@, payload.notes),
                              !.updated_at = clock,
                              !.updated_by_user_id = req[r].actor]
           row == Flush(checklist_items[old.id], old, new)
       IN /\ checklist_items' = [checklist_items EXCEPT ![old.id] = row]
          /\ clock' = clock + 1
          /\ Goto(r, "uc_project", [item |-> row, before |-> loc[r].before])
    /\ UNCHANGED <<users, templates, phases, activities, requirements, decisions,
                   activity_requirements, activity_decisions, projects,
                   project_members, audit_logs, submitted>>

\* project = session.get(Project, project_id); if project: stamp it and commit
UpdateChecklistProject(r) ==
    /\ pc[r] = "uc_project"
    /\ LET project == Get(projects, req[r].p.project_id)
       IN IF project # None
          THEN /\ projects' = [projects EXCEPT ![project[1].id] =
                                  [@ EXCEPT !.updated_at = clock,
                                            !.updated_by_user_id = req[r].actor]]
               /\ clock' = clock + 1
               /\ Goto(r, "uc_audit", loc[r] @@ [expired |-> TRUE])
          ELSE /\ UNCHANGED <<projects, clock>>
               /\ Goto(r, "uc_audit", loc[r] @@ [expired |-> FALSE])
    /\ UNCHANGED <<users, templates, phases, activities, requirements, decisions,
                   activity_requirements, activity_decisions, checklist_items,
                   project_members, audit_logs, submitted>>

\* audit(...): a commit since the refresh expired `item`, and item.id reloads it
UpdateChecklistAudit(r) ==
    /\ pc[r] = "uc_audit"
    /\ LET item == IF loc[r].expired THEN checklist_items[loc[r].item.id]
                   ELSE loc[r].item
       IN /\ audit(Some(req[r].p.project_id), req[r].actor, "checklist.update",
                   "ChecklistItem", Some(item.id),
                   Some(jsonable_encoder(loc[r].before, {"updated_at"})),
                   Some(jsonable_encoder(item, {"updated_at"})))
          /\ Respond(r, 200, item)
    /\ UNCHANGED <<store, submitted>>

\* An existence check that finds nothing.
MemberRowsNotLookedUp(project_id, user_id) == {}

\* session.get(ProjectMember, (project_id, user_id))
MemberRows(project_id, user_id) ==
    {i \in DOMAIN project_members :
        /\ project_members[i].project_id = project_id
        /\ project_members[i].user_id = user_id}

\* POST /projects/{project_id}/members, up to the three session.get checks
AddMember(r, lim) ==
    /\ CanAccept(r)
    /\ \E x_user_id \in ValidHeaders(lim.headers), project_id \in 1..(Len(projects) + 1),
          user_id \in 1..(Len(users) + 1), role \in lim.roles :
          LET p == [project_id |-> project_id, user_id |-> user_id, role |-> role]
          IN IF Get(projects, project_id) = None
             THEN Refuse(r, "addMember", x_user_id, p, 404, "Projeto nao encontrado.")
             ELSE IF Get(users, user_id) = None
             THEN Refuse(r, "addMember", x_user_id, p, 404, "Usuario nao encontrado.")
             ELSE IF MemberRows(project_id, user_id) # {}
             THEN Refuse(r, "addMember", x_user_id, p, 409,
                         "Usuario ja faz parte do projeto.")
             ELSE /\ HasBudget(lim.budget)
                  /\ Begin(r, "addMember", x_user_id, p, "am_commit", NoLocals)
                  /\ UNCHANGED <<store, audit_logs, clock, submitted>>

\* The composite primary key of project_members (models.py): the INSERT of a
\* second row for the pair fails.
NoPrimaryKey(project_id, user_id) == TRUE

PrimaryKeyFree(project_id, user_id) ==
    \A m \in Range(project_members) :
        ~(m.project_id = project_id /\ m.user_id = user_id)

\* pm = ProjectMember(...); session.add(pm); stamp the project; session.commit()
AddMemberCommit(r) ==
    /\ pc[r] = "am_commit"
    /\ LET p == req[r].p
       IN IF PrimaryKeyFree(p.project_id, p.user_id)
          THEN /\ project_members' = Append(project_members,
                     ProjectMember(p.project_id, p.user_id, p.role, clock))
               /\ projects' = [projects EXCEPT ![p.project_id] =
                                  [@ EXCEPT !.updated_at = clock + 1,
                                            !.updated_by_user_id = req[r].actor]]
               /\ clock' = clock + 2
               /\ Goto(r, "am_audit", NoLocals)
          ELSE \* sqlalchemy.exc.IntegrityError: the transaction is rolled back
               /\ Respond(r, 500, [detail |-> "IntegrityError"])
               /\ UNCHANGED <<project_members, projects, clock>>
    /\ UNCHANGED <<users, templates, phases, activities, requirements, decisions,
                   activity_requirements, activity_decisions, checklist_items,
                   audit_logs, submitted>>

AddMemberAudit(r) ==
    /\ pc[r] = "am_audit"
    /\ audit(Some(req[r].p.project_id), req[r].actor, "project.member.add",
             "ProjectMember", None, None,
             Some([project_id |-> req[r].p.project_id,
                   user_id |-> req[r].p.user_id, role |-> req[r].p.role]))
    /\ Respond(r, 200, [ok |-> TRUE])
    /\ UNCHANGED <<store, submitted>>

\* GET /projects/{project_id}/members
list_members(project_id) ==
    IF Get(projects, project_id) = None THEN None
    ELSE LET members == SelectSeq(project_members,
                                  LAMBDA m : m.project_id = project_id)
             user(m) == Get(users, m.user_id)
         IN Some([i \in 1..Len(members) |->
                    [user_id |-> members[i].user_id,
                     name |-> IF user(members[i]) # None
                              THEN Some(user(members[i])[1].name) ELSE None,
                     email |-> IF user(members[i]) # None
                               THEN Some(user(members[i])[1].email) ELSE None,
                     role |-> members[i].role,
                     joined_at |-> members[i].joined_at]])

\* GET /projects/{project_id}/audit
list_audit(project_id) ==
    IF Get(projects, project_id) = None THEN None
    ELSE Some(OrderByDesc({a \in Range(audit_logs) : a.project_id = Some(project_id)},
                          "created_at"))

-----------------------------------------------------------------------------
(* A storage failure or a process crash: the request ends where it stands; *)
(* what it committed stays, what it did not commit is gone.                *)

Fail(r) ==
    /\ Running(r)
    /\ crashes < MaxCrashes
    /\ crashes' = crashes + 1
    /\ pc' = [pc EXCEPT ![r] = "done"]
    /\ loc' = [loc EXCEPT ![r] = NoLocals]
    /\ resp' = [resp EXCEPT ![r] =
                  [status |-> 500, body |-> [detail |-> "storage failure", at |-> pc[r]]]]
    /\ UNCHANGED <<store, audit_logs, clock, req, submitted, dbvars>>

-----------------------------------------------------------------------------

-----------------------------------------------------------------------------
(* db.py: init_db(retries, delay_seconds), called once by main.on_startup  *)

OperationalErrors == {"connection refused", "database is starting up"}

\* for i in range(retries): ...  /  raise last_err
InitDbLoop ==
    /\ dbpc = "loop"
    /\ IF attempt < retries
       THEN /\ attempt' = attempt + 1
            /\ dbpc' = "create_all"
            /\ UNCHANGED raised
       ELSE \* `raise None` is a TypeError: exceptions must derive from BaseException
            /\ raised' = IF last_err = None
                         THEN Some([type |-> "TypeError", attempt |-> attempt,
                                    msg |-> "exceptions must derive from BaseException"])
                         ELSE last_err
            /\ dbpc' = "raised"
            /\ UNCHANGED attempt
    /\ UNCHANGED <<retries, last_err, create_all_calls, sleeps, apivars>>

\* SQLModel.metadata.create_all(engine); return
CreateAllSucceeds ==
    /\ dbpc = "create_all"
    /\ create_all_calls' = create_all_calls + 1
    /\ dbpc' = "returned"
    /\ UNCHANGED <<retries, attempt, last_err, raised, sleeps, apivars>>

\* except OperationalError as e: last_err = e
CreateAllUnreachable ==
    /\ dbpc = "create_all"
    /\ create_all_calls' = create_all_calls + 1
    /\ \E msg \in OperationalErrors :
          last_err' = Some([type |-> "OperationalError", attempt |-> attempt,
                            msg |-> msg])
    /\ dbpc' = "sleep"
    /\ UNCHANGED <<retries, attempt, raised, sleeps, apivars>>

\* any other exception of create_all is not caught
CreateAllFails ==
    /\ dbpc = "create_all"
    /\ create_all_calls' = create_all_calls + 1
    /\ raised' = Some([type |-> "ProgrammingError", attempt |-> attempt,
                       msg |-> "permission denied"])
    /\ dbpc' = "raised"
    /\ UNCHANGED <<retries, attempt, last_err, sleeps, apivars>>

\* time.sleep(delay_seconds)
InitDbSleep ==
    /\ dbpc = "sleep"
    /\ sleeps' = sleeps + 1
    /\ dbpc' = "loop"
    /\ UNCHANGED <<retries, attempt, last_err, raised, create_all_calls, apivars>>

\* The service after a successful start-up: the tables exist and are empty.
Init ==
    /\ users = <<>> /\ templates = <<>> /\ phases = <<>> /\ activities = <<>>
    /\ requirements = <<>> /\ decisions = <<>>
    /\ activity_requirements = {} /\ activity_decisions = {}
    /\ projects = <<>> /\ checklist_items = <<>> /\ project_members = <<>>
    /\ audit_logs = <<>>
    /\ clock = 1
    /\ pc = [r \in Workers |-> "idle"]
    /\ req = [r \in Workers |-> NoRequest]
    /\ loc = [r \in Workers |-> NoLocals]
    /\ resp = [r \in Workers |-> NoResponse]
    /\ crashes = 0
    /\ submitted = <<>>
    /\ dbpc = "returned" /\ retries = 0 /\ attempt = 0 /\ last_err = None
    /\ raised = None /\ create_all_calls = 0 /\ sleeps = 0

(* The store after worker 1 has served, one after the other and with no    *)
(* X-User-Id header, createUser(ana@x.io), createTemplate(one phase with   *)
(* one activity) and createProject(template 1): a state Spec reaches       *)
(* (SeededReached), from which the concurrent and the failing runs start.  *)
SeedUser == User(1, "Ana", "ana@x.io", 1)
SeedTemplate == Template(1, "ERP rollout", "")
SeedProject == Project(1, 1, "Acme", 4, None)
SeedAuditLogs ==
    << AuditLog(1, None, None, "user.create", "User", Some(1), None,
                Some(jsonable_encoder(SeedUser, {"created_at"})), 2),
       AuditLog(2, None, None, "template.create", "Template", Some(1), None,
                Some([template |-> SeedTemplate, phases_count |-> 1]), 3),
       AuditLog(3, Some(1), None, "project.create", "Project", Some(1), None,
                Some([project |-> jsonable_encoder(SeedProject,
                                                   {"created_at", "updated_at"}),
                      checklist_items |-> 1]), 5) >>

Seeded ==
    /\ users = <<SeedUser>>
    /\ templates = <<SeedTemplate>>
    /\ phases = <<Phase(1, 1, "Setup", 1)>>
    /\ activities = <<Activity(1, 1, "install")>>
    /\ requirements = <<>> /\ decisions = <<>>
    /\ activity_requirements = {} /\ activity_decisions = {}
    /\ projects = <<SeedProject>>
    /\ checklist_items = <<ChecklistItem(1, 1, Some(1), "install", 4, None)>>
    /\ project_members = <<>>
    /\ audit_logs = SeedAuditLogs
    /\ clock = 6
    /\ pc = [r \in Workers |-> IF r = 1 THEN "done" ELSE "idle"]
    /\ req = [r \in Workers |->
                IF r = 1 THEN [kind |-> "createProject", x_user_id |-> None, actor |-> None,
                               p |-> [template_id |-> 1, client_name |-> "Acme"]]
                ELSE NoRequest]
    /\ loc = [r \in Workers |-> NoLocals]
    /\ resp = [r \in Workers |->
                 IF r = 1 THEN [status |-> 200,
                                body |-> [project_id |-> 1, checklist_items |-> 1]]
                 ELSE NoResponse]
    /\ crashes = 0
    /\ submitted = <<<<PhaseIn(1, 1)>>>>
    /\ dbpc = "returned" /\ retries = 0 /\ attempt = 0 /\ last_err = None
    /\ raised = None /\ create_all_calls = 0 /\ sleeps = 0

\* The endpoints that depend on get_actor_user_id.
MutatingKinds ==
    {"createUser", "createTemplate", "linkRequirement", "linkDecision",
     "createProject", "updateChecklistItem", "addMember"}

\* A request whose X-User-Id header does not validate as Optional[int] is
\* answered 422 by the framework: the handler is not entered.
Unprocessable(r, lim) ==
    /\ CanAccept(r)
    /\ \E x_user_id \in lim.headers \ ValidHeaders(lim.headers),
          kind \in MutatingKinds :
          /\ req' = [req EXCEPT ![r] =
                       [kind |-> kind, x_user_id |-> x_user_id, actor |-> None,
                        p |-> [none |-> TRUE]]]
          /\ pc' = [pc EXCEPT ![r] = "done"]
          /\ loc' = [loc EXCEPT ![r] = NoLocals]
          /\ resp' = [resp EXCEPT ![r] =
                        [status |-> 422,
                         body |-> [detail |-> "header x-user-id: not a valid integer"]]]
    /\ UNCHANGED <<store, audit_logs, clock, crashes, submitted, dbvars>>

\* The requests a worker may take: each up to its first database statement.
Start(r, lim) ==
    \/ CreateUser(r, lim)
    \/ CreateTemplate(r, lim)
    \/ LinkRequirement(r, lim)
    \/ LinkDecision(r, lim)
    \/ CreateProject(r, lim)
    \/ UpdateChecklistItem(r, lim)
    \/ AddMember(r, lim)

\* The next statement of the request a worker is handling.
Continue(r) ==
    \/ CreateUserCommit(r)
    \/ CreateUserAudit(r)
    \/ CreateTemplatePhase(r)
    \/ CreateTemplateActivities(r)
    \/ CreateTemplateAudit(r)
    \/ LinkRequirementCommit(r)
    \/ LinkRequirementLink(r)
    \/ LinkRequirementAudit(r)
    \/ LinkDecisionCommit(r)
    \/ LinkDecisionLink(r)
    \/ LinkDecisionAudit(r)
    \/ CreateProjectCommit(r)
    \/ CreateProjectPhases(r)
    \/ CreateProjectActivities(r)
    \/ CreateProjectItems(r)
    \/ CreateProjectAudit(r)
    \/ UpdateChecklistCommit(r)
    \/ UpdateChecklistProject(r)
    \/ UpdateChecklistAudit(r)
    \/ AddMemberCommit(r)
    \/ AddMemberAudit(r)

SeqLimits ==
    [budget |-> SeqBudget, templates |-> MaxTemplates, projects |-> MaxProjects,
     links |-> MaxLinks, headers |-> Anonymous, emails |-> Emails,
     shapes |-> TemplateShapes, updates |-> UpdatePayloads, roles |-> Roles]
ConcLimits ==
    [budget |-> Len(SeedAuditLogs) + ConcBudget,
     templates |-> Len(<<SeedTemplate>>) + MaxTemplates,
     projects |-> Len(<<SeedProject>>) + MaxProjects,
     links |-> MaxLinks, headers |-> Anonymous, emails |-> Emails,
     shapes |-> {<<>>, <<2, 1>>},
     updates |-> {ChecklistUpdateIn(Some("doing"), None, None),
                  ChecklistUpdateIn(None, Some("ana"), Some("call back"))},
     roles |-> {"member"}]
LiveLimits ==
    [budget |-> Len(SeedAuditLogs) + LiveBudget,
     templates |-> Len(<<SeedTemplate>>) + MaxTemplates,
     projects |-> Len(<<SeedProject>>) + MaxProjects,
     links |-> MaxLinks, headers |-> Actors, emails |-> {"bob@x.io"},
     shapes |-> {<<>>, <<1>>},
     updates |-> {ChecklistUpdateIn(Some("doing"), None, None),
                  ChecklistUpdateIn(None, None, Some("call back"))},
     roles |-> {"member"}]

SeededLimits ==
    [budget |-> Len(SeedAuditLogs) + SeededBudget,
     templates |-> Len(<<SeedTemplate>>) + MaxTemplates,
     projects |-> Len(<<SeedProject>>) + MaxProjects,
     links |-> MaxLinks, headers |-> Anonymous, emails |-> Emails,
     shapes |-> {<<>>, <<2, 1>>},
     updates |-> {ChecklistUpdateIn(Some("doing"), None, None),
                  ChecklistUpdateIn(None, Some("ana"), Some("call back"))},
     roles |-> Roles]

HeaderLimits ==
    [budget |-> Len(SeedAuditLogs) + HeaderBudget,
     templates |-> Len(<<SeedTemplate>>) + MaxTemplates,
     projects |-> Len(<<SeedProject>>) + MaxProjects,
     links |-> MaxLinks, headers |-> Headers, emails |-> {"bob@x.io"},
     shapes |-> {<<>>, <<1>>},
     updates |-> {ChecklistUpdateIn(Some("doing"), None, None),
                  ChecklistUpdateIn(None, None, Some("call back"))},
     roles |-> {"member"}]

\* One worker: requests are served one after the other, storage never fails.
Next == Start(1, SeqLimits) \/ Continue(1)
Spec == Init /\ [][Next]_vars

\* One worker goes on serving requests on the seeded store.
SeededNext == Start(1, SeededLimits) \/ Continue(1)
SeededSpec == Seeded /\ [][SeededNext]_vars

\* One worker on the seeded store; callers send any X-User-Id header.
HeaderNext == Start(1, HeaderLimits) \/ Unprocessable(1, HeaderLimits) \/ Continue(1)
HeaderSpec == Seeded /\ [][HeaderNext]_vars

\* Two workers serve requests concurrently on the seeded store.
ConcNext == \E r \in Workers : Start(r, ConcLimits) \/ Continue(r)
ConcSpec == Seeded /\ [][ConcNext]_vars

\* One worker on the seeded store; storage may fail or the process crash, and
\* a request that is not hit by a failure runs on to its response.
LiveNext == Start(1, LiveLimits) \/ Continue(1) \/ Fail(1)
LiveSpec == Seeded /\ [][LiveNext]_vars /\ WF_vars(Continue(1))

\* Start-up: init_db is called with some retries; no request is served yet.
InitDb ==
    /\ users = <<>> /\ templates = <<>> /\ phases = <<>> /\ activities = <<>>
    /\ requirements = <<>> /\ decisions = <<>>
    /\ activity_requirements = {} /\ activity_decisions = {}
    /\ projects = <<>> /\ checklist_items = <<>> /\ project_members = <<>>
    /\ audit_logs = <<>>
    /\ clock = 1
    /\ pc = [r \in Workers |-> "idle"]
    /\ req = [r \in Workers |-> NoRequest]
    /\ loc = [r \in Workers |-> NoLocals]
    /\ resp = [r \in Workers |-> NoResponse]
    /\ crashes = 0
    /\ submitted = <<>>
    /\ dbpc = "loop" /\ retries \in 0..MaxRetries /\ attempt = 0
    /\ last_err = None /\ raised = None /\ create_all_calls = 0 /\ sleeps = 0

InitDbNext ==
    \/ InitDbLoop
    \/ CreateAllSucceeds
    \/ CreateAllUnreachable
    \/ CreateAllFails
    \/ InitDbSleep
InitDbSpec == InitDb /\ [][InitDbNext]_vars

\* Spec reaches the seeded state.
SeededReached == Seeded

-----------------------------------------------------------------------------
(* What the claims speak of. *)

\* the documented audit tag of each mutating operation
ActionTag(kind) ==
    CASE kind = "createUser" -> "user.create"
      [] kind = "createTemplate" -> "template.create"
      [] kind = "linkRequirement" -> "template.requirement.link"
      [] kind = "linkDecision" -> "template.decision.link"
      [] kind = "createProject" -> "project.create"
      [] kind = "updateChecklistItem" -> "checklist.update"
      [] kind = "addMember" -> "project.member.add"
      [] OTHER -> "none"

\* createTemplate(template_id) has completed: its audit row is written
TemplateCompleted(template_id) ==
    \E i \in DOMAIN audit_logs :
        /\ audit_logs[i].action = "template.create"
        /\ audit_logs[i].entity_id = Some(template_id)

\* the activities across the phases of the payload createTemplate was given
SubmittedActivities(template_id) ==
    SumSeq([i \in DOMAIN submitted[template_id] |->
               Len(submitted[template_id][i].activities)])

ActivitiesOfTemplate(template_id) ==
    {a \in Range(activities) :
        \E ph \in Range(phases) : ph.id = a.phase_id /\ ph.template_id = template_id}

ItemsOfProject(project_id) ==
    {it \in Range(checklist_items) : it.project_id = project_id}

\* worker r has just answered a request of this kind
Answered(r, kind) == pc[r] = "done" /\ req[r].kind = kind

\* C1: a createProject on a template whose createTemplate has completed
\* succeeds, creates one "todo" checklist item per activity of the template
\* (title = the activity's name, activity_id = that activity), A items for a
\* template submitted with A activities, and returns A as the item count.
C1_ChecklistSnapshotsTemplate ==
    \A r \in Workers :
        Answered(r, "createProject") /\ req[r].p.template_id \in DOMAIN templates
        /\ TemplateCompleted(req[r].p.template_id)
        => LET template_id == req[r].p.template_id
               A == SubmittedActivities(template_id)
               acts == ActivitiesOfTemplate(template_id)
               items == ItemsOfProject(resp[r].body.project_id)
           IN /\ resp[r].status = 200
              /\ resp[r].body.checklist_items = A
              /\ Cardinality(items) = A
              /\ Cardinality(acts) = A
              /\ \A it \in items :
                    /\ it.status = "todo"
                    /\ \E a \in acts : it.activity_id = Some(a.id) /\ it.title = a.name
              /\ \A a \in acts :
                    Cardinality({it \in items : it.activity_id = Some(a.id)}) = 1

\* a project was created from a template of two phases and three activities
C1_Witness ==
    \E r \in Workers :
        /\ Answered(r, "createProject") /\ resp[r].status = 200
        /\ resp[r].body.checklist_items = 3
        /\ Len(submitted[req[r].p.template_id]) = 2
        /\ Cardinality(ItemsOfProject(resp[r].body.project_id)) = 3

\* worker r takes a step of the request it is handling
Steps(r) == Running(r) /\ pc'[r] # pc[r]
\* worker r answers the request it is handling with status 200
Succeeds(r) == Running(r) /\ pc'[r] = "done" /\ resp'[r].status = 200

\* the newest audit row carries the tag of r's request, and its `after` is
\* the state the store holds for the entity the request wrote
LastAuditMatches(r) ==
    /\ audit_logs # <<>>
    /\ LET row == audit_logs[Len(audit_logs)]
           kind == req[r].kind
           p == req[r].p
           after == row.after[1]
       IN /\ row.action = ActionTag(kind)
          /\ row.actor_user_id = req[r].actor
          /\ row.after # None
          /\ CASE kind = "createUser" ->
                   /\ row.entity_id # None /\ row.entity_id[1] \in DOMAIN users
                   /\ after = jsonable_encoder(users[row.entity_id[1]], {"created_at"})
                   /\ after.email = p.email /\ after.name = p.name
               [] kind = "createTemplate" ->
                   /\ row.entity_id # None /\ row.entity_id[1] \in DOMAIN templates
                   /\ after.template = templates[row.entity_id[1]]
                   /\ after.phases_count = Len(p.phases)
                   /\ after.phases_count =
                        Cardinality({ph \in Range(phases) :
                                        ph.template_id = row.entity_id[1]})
               [] kind = "linkRequirement" ->
                   /\ after \in activity_requirements
                   /\ after.activity_id = p.activity_id
                   /\ after.requirement_id \in DOMAIN requirements
               [] kind = "linkDecision" ->
                   /\ after \in activity_decisions
                   /\ after.activity_id = p.activity_id
                   /\ after.decision_id \in DOMAIN decisions
               [] kind = "createProject" ->
                   /\ row.entity_id # None /\ row.entity_id[1] \in DOMAIN projects
                   /\ after.project = jsonable_encoder(projects[row.entity_id[1]],
                                                       {"created_at", "updated_at"})
                   /\ after.project.template_id = p.template_id
                   /\ after.checklist_items =
                        Cardinality(ItemsOfProject(row.entity_id[1]))
               [] kind = "updateChecklistItem" ->
                   /\ row.entity_id = Some(p.item_id)
                   /\ after = jsonable_encoder(checklist_items[p.item_id],
                                               {"updated_at"})
               [] kind = "addMember" ->
                   /\ after = [project_id |-> p.project_id, user_id |-> p.user_id,
                               role |-> p.role]
                   /\ \E m \in Range(project_members) :
                         /\ m.project_id = after.project_id
                         /\ m.user_id = after.user_id /\ m.role = after.role
               [] OTHER -> FALSE

\* C2: a mutating call that succeeds adds exactly one AuditLog row, with its
\* answer: the row carries the operation's documented tag and its `after`
\* matches the entity's post-mutation state; no other step of a call, and no
\* call refused with 404 or 409, adds a row.
C2_OneAuditRowPerSuccess ==
    [][\A r \in Workers :
          /\ Succeeds(r) => /\ Len(audit_logs') = Len(audit_logs) + 1
                            /\ SubSeq(audit_logs', 1, Len(audit_logs)) = audit_logs
                            /\ LastAuditMatches(r)'
          /\ (Steps(r) /\ ~Succeeds(r)) => audit_logs' = audit_logs
          /\ (~Running(r) /\ pc'[r] = "done" /\ resp'[r].status \in {404, 409})
                => audit_logs' = audit_logs]_vars

\* each of the seven operations has succeeded and is audited; seen here for
\* an update of a checklist item, the last of a run of four audited calls
C2_Witness ==
    \E r \in Workers :
        /\ Answered(r, "updateChecklistItem") /\ resp[r].status = 200
        /\ Len(audit_logs) = 4
        /\ audit_logs[4].action = "checklist.update"
        /\ audit_logs[4].after[1].status = "done"
        /\ audit_logs[4].before[1].status = "doing"

\* the update request whose commit this step is, if any, for item `id`
CommitsUpdateOf(r, id) ==
    /\ req[r].kind = "updateChecklistItem" /\ req[r].p.item_id = id
    /\ pc[r] = "uc_item" /\ pc'[r] = "uc_project"

\* C3: updateChecklistItem sets, among status, assignee and notes, exactly
\* the fields its request carries (an empty string included) and leaves an
\* omitted field as it was; no step of the system changes an item's
\* project_id, activity_id or title, and no other step changes the three
\* mutable fields.
C3_PartialUpdate ==
    [][\A id \in DOMAIN checklist_items :
          /\ id \in DOMAIN checklist_items'
          /\ LET old == checklist_items[id]
                 new == checklist_items'[id]
             IN /\ new.project_id = old.project_id
                /\ new.activity_id = old.activity_id
                /\ new.title = old.title
                /\ IF \E r \in Workers : CommitsUpdateOf(r, id)
                   THEN \A r \in Workers : CommitsUpdateOf(r, id) =>
                          \A f \in {"status", "assignee", "notes"} :
                             new[f] = IF req[r].p.payload[f] = None THEN old[f]
                                      ELSE req[r].p.payload[f][1]
                   ELSE /\ new.status = old.status
                        /\ new.assignee = old.assignee
                        /\ new.notes = old.notes]_vars

\* {notes: ""} was applied to an item whose notes were "call back" and whose
\* assignee was "ana": the notes are empty now, the assignee is unchanged
C3_Witness ==
    \E r \in Workers :
        /\ Answered(r, "updateChecklistItem") /\ resp[r].status = 200
        /\ req[r].p.payload = ChecklistUpdateIn(None, None, Some(""))
        /\ audit_logs[Len(audit_logs)].before[1].notes = "call back"
        /\ audit_logs[Len(audit_logs)].before[1].assignee = "ana"
        /\ checklist_items[req[r].p.item_id].notes = ""
        /\ checklist_items[req[r].p.item_id].assignee = "ana"

\* the entries GET /projects/{project_id}/members shows for a user
MemberEntries(project_id, user_id) ==
    IF list_members(project_id) = None THEN {}
    ELSE {i \in DOMAIN list_members(project_id)[1] :
             list_members(project_id)[1][i].user_id = user_id}

\* the pair has a successful addMember behind it
AlreadyAdded(project_id, user_id) ==
    \E i \in DOMAIN audit_logs :
        /\ audit_logs[i].action = "project.member.add"
        /\ audit_logs[i].after[1].project_id = project_id
        /\ audit_logs[i].after[1].user_id = user_id

\* C4: an addMember for an existing project and user that are not yet linked
\* passes the checks, inserts the row and answers 200; an addMember that
\* comes after a successful one for the same pair is refused with 409 and
\* changes neither the store nor the audit log; either way listMembers then
\* shows exactly one entry for the pair.
C4_SecondAddMemberConflicts ==
    [][\A r \in Workers, pid \in DOMAIN projects, uid \in DOMAIN users :
          /\ (/\ ~Running(r) /\ req'[r].kind = "addMember"
              /\ <<pc[r], req[r], resp[r]>> # <<pc'[r], req'[r], resp'[r]>>
              /\ req'[r].p.project_id = pid /\ req'[r].p.user_id = uid) =>
                /\ AlreadyAdded(pid, uid) =>
                        /\ pc'[r] = "done" /\ resp'[r].status = 409
                        /\ store' = store /\ audit_logs' = audit_logs
                        /\ Cardinality(MemberEntries(pid, uid)') = 1
                /\ (MemberEntries(pid, uid) = {} /\ HasBudget(SeededLimits.budget))
                        => pc'[r] = "am_commit"
          /\ (/\ Steps(r) /\ req[r].kind = "addMember"
              /\ req[r].p.project_id = pid /\ req[r].p.user_id = uid) =>
                /\ pc[r] = "am_commit" => pc'[r] = "am_audit"
                /\ pc[r] = "am_audit" => Succeeds(r)
                /\ Cardinality(MemberEntries(pid, uid)') = 1]_vars

\* the second addMember for the pair was answered 409 after the first one succeeded
C4_Witness ==
    \E r \in Workers :
        /\ Answered(r, "addMember") /\ resp[r].status = 409
        /\ AlreadyAdded(req[r].p.project_id, req[r].p.user_id)
        /\ Cardinality(MemberEntries(req[r].p.project_id, req[r].p.user_id)) = 1

\* C5: createUser with the email of a stored user is refused with 409 and
\* leaves the store and the audit log as they were, so listUsers shows as
\* many users after the call as before it.
C5_DuplicateEmailRefused ==
    [][\A r \in Workers :
          (/\ ~Running(r) /\ req'[r].kind = "createUser"
           /\ <<pc[r], req[r], resp[r]>> # <<pc'[r], req'[r], resp'[r]>>
           /\ \E i \in DOMAIN users : users[i].email = req'[r].p.email)
          => /\ pc'[r] = "done" /\ resp'[r].status = 409
             /\ store' = store /\ audit_logs' = audit_logs
             /\ Len(list_users') = Len(list_users)]_vars

\* a createUser was refused with 409 while a user with its email is stored
C5_Witness ==
    \E r \in Workers :
        /\ Answered(r, "createUser") /\ resp[r].status = 409
        /\ \E i \in DOMAIN users : users[i].email = req[r].p.email
        /\ Len(list_users) = Len(users)

\* C9: no step updates or deletes an AuditLog row: the rows of before are
\* the first rows of after, unchanged.
C9_AuditAppendOnly ==
    [][/\ Len(audit_logs') >= Len(audit_logs)
       /\ SubSeq(audit_logs', 1, Len(audit_logs)) = audit_logs]_vars

\* four rows were appended in turn, and a project's trail lists its own
C9_Witness ==
    /\ Len(audit_logs) = 4
    /\ \A i \in 1..4 : audit_logs[i].id = i
    /\ list_audit(1) # None /\ Len(list_audit(1)[1]) = 2

\* No two stored users have the same email.
EmailUnique ==
    \A i, j \in DOMAIN users : users[i].email = users[j].email => i = j

\* C6: while createUser requests run concurrently, at most one User row per
\* email is ever stored: the request that loses the race is stopped by a
\* duplicate-key failure of the table.
C6_EmailUniqueUnderConcurrency ==
    /\ EmailUnique
    /\ \A r \in Workers :
          Answered(r, "createUser") /\ resp[r].status = 200
          => Cardinality({i \in DOMAIN users : users[i].email = req[r].p.email}) = 1

\* the rows of the project_members table for a pair
RowsOfPair(project_id, user_id) ==
    {i \in DOMAIN project_members :
        /\ project_members[i].project_id = project_id
        /\ project_members[i].user_id = user_id}

\* the project.member.add rows of the audit log for a pair
AuditRowsOfPair(project_id, user_id) ==
    {i \in DOMAIN audit_logs :
        /\ audit_logs[i].action = "project.member.add"
        /\ audit_logs[i].after[1].project_id = project_id
        /\ audit_logs[i].after[1].user_id = user_id}

\* C7: while addMember requests run concurrently, the table holds at most
\* one row per (project_id, user_id) and the audit log at most one
\* project.member.add row per pair; a request that passed the check and then
\* lost the race fails on the primary key, leaving the winner's single row.
C7_OneMemberRowPerPair ==
    /\ \A pid \in DOMAIN projects, uid \in DOMAIN users :
          /\ Cardinality(RowsOfPair(pid, uid)) <= 1
          /\ Cardinality(AuditRowsOfPair(pid, uid)) <= 1
          /\ AuditRowsOfPair(pid, uid) # {} => RowsOfPair(pid, uid) # {}
    /\ \A r \in Workers :
          (Answered(r, "addMember") /\ resp[r].status = 500)
          => /\ resp[r].body = [detail |-> "IntegrityError"]
             /\ Cardinality(RowsOfPair(req[r].p.project_id, req[r].p.user_id)) = 1

\* two addMember requests for one pair both passed the check; one was
\* answered 200 and the other failed on the primary key
C7_Witness ==
    \E r, q \in Workers :
        /\ r # q
        /\ Answered(r, "addMember") /\ Answered(q, "addMember")
        /\ req[r].p.project_id = req[q].p.project_id
        /\ req[r].p.user_id = req[q].p.user_id
        /\ resp[r].status = 200
        /\ resp[q] = [status |-> 500, body |-> [detail |-> "IntegrityError"]]
        /\ Cardinality(RowsOfPair(req[r].p.project_id, req[r].p.user_id)) = 1
        /\ Cardinality(AuditRowsOfPair(req[r].p.project_id, req[r].p.user_id)) = 1

\* the positions of a handler between its first commit and the commit of
\* its audit row
AfterCommit ==
    {"cu_audit", "ct_phase", "ct_activities", "ct_audit", "lr_link", "lr_audit",
     "ld_link", "ld_audit", "cp_phases", "cp_activities", "cp_items", "cp_audit",
     "uc_project", "uc_audit", "am_audit"}

Committed(r) == pc[r] \in AfterCommit
\* r's request was answered 200 and the newest audit row is the row of it
Audited(r) == pc[r] = "done" /\ resp[r].status = 200 /\ LastAuditMatches(r)
\* r's request was ended by a crash or a storage failure
Failed(r) ==
    /\ pc[r] = "done" /\ resp[r].status = 500
    /\ resp[r].body.detail = "storage failure"

\* the state change of r's createUser or addMember is stored
MutationDurable(r) ==
    CASE req[r].kind = "createUser" ->
            \E i \in DOMAIN users : users[i].email = req[r].p.email
      [] req[r].kind = "addMember" ->
            RowsOfPair(req[r].p.project_id, req[r].p.user_id) # {}
      [] OTHER -> FALSE

\* the audit log holds a row for the state change of r's createUser or addMember
HasAuditRow(r) ==
    CASE req[r].kind = "createUser" ->
            \E i \in DOMAIN audit_logs :
                /\ audit_logs[i].action = "user.create"
                /\ audit_logs[i].after[1].email = req[r].p.email
      [] req[r].kind = "addMember" ->
            AuditRowsOfPair(req[r].p.project_id, req[r].p.user_id) # {}
      [] OTHER -> FALSE

\* C8: the state change and its audit row are committed separately: between
\* the two commits the change is stored and its audit row is not, and a
\* crash or a storage failure there leaves it so; a request that committed
\* its change and is not hit by a failure goes on to commit its audit row.
C8_AuditFollowsCommit ==
    /\ [](\A r \in Workers :
            (pc[r] \in {"cu_audit", "am_audit"}
             \/ (Failed(r) /\ resp[r].body.at \in {"cu_audit", "am_audit"}))
            => (MutationDurable(r) /\ ~HasAuditRow(r)))
    /\ (Committed(1) ~> (Audited(1) \/ Failed(1)))

\* an addMember was cut off between its two commits: the member row is
\* stored and the audit log has no project.member.add row for it
C8_Witness ==
    /\ Answered(1, "addMember") /\ Failed(1) /\ resp[1].body.at = "am_audit"
    /\ RowsOfPair(req[1].p.project_id, req[1].p.user_id) # {}
    /\ AuditRowsOfPair(req[1].p.project_id, req[1].p.user_id) = {}
    /\ \A i \in DOMAIN audit_logs : audit_logs[i].action # "project.member.add"

\* the errors an attempt of init_db can end with
AttemptErrors == {"OperationalError", "ProgrammingError"}

\* C10: init_db makes at most `retries` schema-creation attempts, returns at
\* the first one that succeeds, makes another attempt only after an
\* OperationalError, and when it gives up it raises the error of its last
\* attempt, whatever retries >= 0 it was called with.
C10_InitDbBoundedRetries ==
    /\ create_all_calls <= retries /\ attempt <= retries
    /\ sleeps <= create_all_calls
    /\ dbpc = "returned" => (create_all_calls = attempt /\ sleeps = attempt - 1)
    /\ dbpc = "create_all" => sleeps = attempt - 1
    /\ dbpc = "raised" =>
          /\ raised # None
          /\ raised[1].type \in AttemptErrors
          /\ raised[1].attempt = create_all_calls
          /\ raised[1].type = "OperationalError" => create_all_calls = retries

\* C11: a request with no X-User-Id header, or with one that is not an
\* integer, is handled with actor = null and is not rejected for its header;
\* a request with an integer header is handled with that integer as actor.
C11_ActorResolver ==
    \A r \in Workers :
        req[r].kind \in MutatingKinds
        => LET header == req[r].x_user_id
           IN IF header # None /\ IsIntegerText(header[1])
              THEN req[r].actor = Some(int(header[1]))
              ELSE /\ req[r].actor = None
                   /\ pc[r] = "done" => resp[r].status # 422

\* createProject(project_id) has completed: its audit row is written
ProjectCompleted(project_id) ==
    \E i \in DOMAIN audit_logs :
        /\ audit_logs[i].action = "project.create"
        /\ audit_logs[i].entity_id = Some(project_id)

\* C12: whatever the interleaving of a createProject with the createTemplate
\* of its template, once both have completed the project's checklist has an
\* item for every activity of the template, never for only part of them.
C12_SnapshotCompleteUnderConcurrency ==
    \A project_id \in DOMAIN projects :
        LET template_id == projects[project_id].template_id
        IN (ProjectCompleted(project_id) /\ TemplateCompleted(template_id))
           => /\ {it.activity_id : it \in ItemsOfProject(project_id)}
                   = {Some(a.id) : a \in ActivitiesOfTemplate(template_id)}
              /\ Cardinality(ItemsOfProject(project_id))
                   = SubmittedActivities(template_id)

====
